---- MODULE Spec2Model ----
(***************************************************************************)
(* A model of flopy/modflow/mfwel.py: the ModflowWel package class.        *)
(*                                                                         *)
(* An option string is modelled by the list of its whitespace-separated    *)
(* tokens (what opt.strip().split() returns).  A damping factor is held in *)
(* hundredths (0.05 is 5), so that every value of the model is an integer. *)
(* The Python list object the caller hands to the constructor is the       *)
(* variable callerOptions; a package refers to it (optref = "caller") or   *)
(* to a fresh empty list of its own.                                       *)
(***************************************************************************)
EXTENDS Integers, Sequences, FiniteSets, TLC

\* ---------------------------------------------------------------- bounds
MaxOpts == 3        \* longest options list a caller passes
MaxPkgs == 2        \* constructor calls on the same list object
NPer == 2           \* stress periods of the parent model
MaxAdds == 3        \* successful add_record calls on a package
MaxN == 2           \* largest ncells handed to get_empty

VARIABLES
    version,        \* parent.version
    structured,     \* parent.structured
    longBits,       \* width of the C long that np.int names on this build
    callerOptions,  \* the caller's options list object (mutated in place)
    pkgs,           \* the packages constructed so far, in order
    calls,          \* one entry per constructor call: its arguments, the list
                    \* it was given and left behind, its outcome and package
    f_wel,          \* the lines of the file at fn_path, <<>> before any write
    writer,         \* the index in pkgs of the package that wrote f_wel, 0 if none
    last            \* the last operation: its name, the error it raised, its value

vars == <<version, structured, longBits, callerOptions, pkgs, calls, f_wel,
          writer, last>>

NoError == [type |-> "none", msg |-> ""]
Outcome(op, error, value) == [op |-> op, raised |-> error, value |-> value]

Periods == 0 .. (NPer - 1)

\* ------------------------------------------------------- option strings
\* 'specify' in opt: a substring test on the raw string, so a token that
\* merely contains the word matches too.
HasSpecifySubstring(tok) == tok \in {"specify", "nospecify"}

ContainsSpecify(opt) == \E n \in 1 .. Len(opt) : HasSpecifySubstring(opt[n])

\* np.float(text): the texts float() accepts, and their values in hundredths.
IsFloatText(tok) == tok \in {"0.05", "0.5", "7", "9"}

FloatOf(tok) ==
    CASE tok = "0.05" -> 5
      [] tok = "0.5" -> 50
      [] tok = "7" -> 700
      [] tok = "9" -> 900

\* np.int(text): int() accepts a decimal integer only, not "0.05".
IsIntText(tok) == tok \in {"7", "9"}

IntOf(tok) ==
    CASE tok = "7" -> 7
      [] tok = "9" -> 9

\* The option strings callers pass: plain options, well-formed specify
\* entries, and malformed ones of each kind.
OptionEntries ==
    { <<"noprint">>,
      <<"aux", "iface">>,
      <<"specify", "0.05", "7">>,
      <<"specify", "0.5", "9">>,
      <<"nospecify", "7", "9">>,
      <<"specify", "0.05", "7", "9">>,
      <<"specify", "0.05">>,
      <<"specify">>,
      <<"specify", "abc", "7">>,
      <<"specify", "0.05", "0.5">>,
      <<"aux", "specify", "0.05", "7">> }

RECURSIVE SeqsUpTo(_, _)
SeqsUpTo(S, n) ==
    IF n = 0 THEN {<<>>}
    ELSE LET shorter == SeqsUpTo(S, n - 1)
         IN  shorter \cup {Append(s, x) : s \in {t \in shorter : Len(t) = n - 1}, x \in S}

OptionLists == SeqsUpTo(OptionEntries, MaxOpts)

\* The lists used where the table, not the options, is under study.
TableOptionLists ==
    { <<>>,
      << <<"specify", "0.05", "7">> >>,
      << <<"noprint">>, <<"specify", "0.5", "9">> >> }

EmptyTable == [kper \in {} |-> <<>>]

\* -------------------------------------------------------- the constructor
\* Mutant: the flag is stored as given.
NormalizeIpakcb_Keep(ipakcb) == ipakcb

\* ipakcb != 0 -> 53, else 0.
NormalizeIpakcb(ipakcb) == IF ipakcb # 0 THEN 53 ELSE 0

\* Mutant: the scan does not stop at the first match, so the last one wins.
LastSpecify(options) ==
    IF \E n \in 1 .. Len(options) : ContainsSpecify(options[n])
    THEN CHOOSE n \in 1 .. Len(options) :
            /\ ContainsSpecify(options[n])
            /\ \A m \in (n + 1) .. Len(options) : ~ContainsSpecify(options[m])
    ELSE 0

\* for idx, opt in enumerate(options): if 'specify' in opt: ... break
\* The index (from 1) of the first matching entry, 0 when none matches.
FirstSpecify(options) ==
    IF \E n \in 1 .. Len(options) : ContainsSpecify(options[n])
    THEN CHOOSE n \in 1 .. Len(options) :
            /\ ContainsSpecify(options[n])
            /\ \A m \in 1 .. (n - 1) : ~ContainsSpecify(options[m])
    ELSE 0

\* Mutant: an entry of other than three tokens is refused.
ParseSpecify_Strict(t) ==
    IF Len(t) # 3 THEN [ok |-> FALSE, error |-> "IndexError"]
    ELSE IF ~IsFloatText(t[2]) THEN [ok |-> FALSE, error |-> "ValueError"]
    ELSE IF ~IsIntText(t[3]) THEN [ok |-> FALSE, error |-> "ValueError"]
    ELSE [ok |-> TRUE, phiramp |-> FloatOf(t[2]), phiramp_unit |-> IntOf(t[3])]

\* t = opt.strip().split(); np.float(t[1]); np.int(t[2]), in that order:
\* the first statement that fails decides the error.  Python counts from 0,
\* so its t[1] and t[2] are t[2] and t[3] here.
ParseSpecify(t) ==
    IF Len(t) < 2 THEN [ok |-> FALSE, error |-> "IndexError"]
    ELSE IF ~IsFloatText(t[2]) THEN [ok |-> FALSE, error |-> "ValueError"]
    ELSE IF Len(t) < 3 THEN [ok |-> FALSE, error |-> "IndexError"]
    ELSE IF ~IsIntText(t[3]) THEN [ok |-> FALSE, error |-> "ValueError"]
    ELSE [ok |-> TRUE, phiramp |-> FloatOf(t[2]), phiramp_unit |-> IntOf(t[3])]

\* options.pop(idx)
Pop(options, n) ==
    [m \in 1 .. (Len(options) - 1) |-> IF m < n THEN options[m] ELSE options[m + 1]]

\* Mutant: the constructor works on a copy, options = list(options).
Construct_Copy(ipakcb, passed, options) ==
    LET opts == IF passed THEN options ELSE <<>>
        idx == FirstSpecify(opts)
        p == ParseSpecify(opts[idx])
    IN  IF idx = 0
        THEN [ok |-> TRUE,
              pkg |-> [ipakcb |-> NormalizeIpakcb(ipakcb), specify |-> FALSE,
                       optref |-> "own", own |-> opts, spd |-> EmptyTable,
                       adds |-> 0],
              options |-> options]
        ELSE IF ~p.ok
        THEN [ok |-> FALSE, error |-> p.error, options |-> options]
        ELSE [ok |-> TRUE,
              pkg |-> [ipakcb |-> NormalizeIpakcb(ipakcb), specify |-> TRUE,
                       phiramp |-> p.phiramp, phiramp_unit |-> p.phiramp_unit,
                       optref |-> "own", own |-> Pop(opts, idx),
                       spd |-> EmptyTable, adds |-> 0],
              options |-> options]

\* The body of __init__ as a function of its arguments: whether it returns,
\* the error it raises otherwise, the fields of the new package and the
\* caller's list afterwards.  optref says whether self.options is the
\* caller's list object or the fresh [] made for options=None.
Construct(ipakcb, passed, options) ==
    LET opts == IF passed THEN options ELSE <<>>
        idx == FirstSpecify(opts)
        base == [ipakcb |-> NormalizeIpakcb(ipakcb),
                 specify |-> FALSE,
                 optref |-> IF passed THEN "caller" ELSE "own",
                 own |-> <<>>,
                 spd |-> EmptyTable,
                 adds |-> 0]
    IN  IF idx = 0
        THEN [ok |-> TRUE, pkg |-> base, options |-> options]
        ELSE LET p == ParseSpecify(opts[idx])
             IN  IF ~p.ok
                 THEN [ok |-> FALSE, error |-> p.error, options |-> options]
                 ELSE [ok |-> TRUE,
                       pkg |-> [ipakcb |-> base.ipakcb,
                                specify |-> TRUE,
                                phiramp |-> p.phiramp,
                                phiramp_unit |-> p.phiramp_unit,
                                optref |-> base.optref,
                                own |-> <<>>,
                                spd |-> EmptyTable,
                                adds |-> 0],
                       options |-> Pop(opts, idx)]

\* self.options of package p, as the heap stands now.
OptionsOf(p) == IF p.optref = "caller" THEN callerOptions ELSE p.own

\* ModflowWel(model, ipakcb=ipakcb, options=<the caller's list, or None>)
ModflowWel_init(ipakcb, passed) ==
    LET c == Construct(ipakcb, passed, callerOptions)
        call == [ipakcb |-> ipakcb, passed |-> passed, given |-> callerOptions,
                 left |-> c.options, ok |-> c.ok,
                 error |-> IF c.ok THEN "none" ELSE c.error,
                 pkg |-> IF c.ok THEN Len(pkgs) + 1 ELSE 0]
    IN  /\ Len(calls) < MaxPkgs
        /\ calls' = Append(calls, call)
        /\ callerOptions' = c.options
        /\ pkgs' = IF c.ok THEN Append(pkgs, c.pkg) ELSE pkgs
        /\ last' = Outcome("init",
                           IF c.ok THEN NoError ELSE [type |-> c.error, msg |-> ""],
                           Len(pkgs'))
        /\ UNCHANGED <<version, structured, longBits, f_wel, writer>>

\* ------------------------------------------------------------ the schema
\* get_default_dtype(structured): the fields and their types, in order.
get_default_dtype(struct) ==
    IF struct
    THEN << [name |-> "k", type |-> "int"], [name |-> "i", type |-> "int"],
            [name |-> "j", type |-> "int"], [name |-> "flux", type |-> "float32"] >>
    ELSE << [name |-> "node", type |-> "int"], [name |-> "flux", type |-> "float32"] >>

\* Package.add_to_dtype(dtype, names, np.float32): one more field per name.
add_to_dtype(dtype, names, type) ==
    dtype \o [n \in 1 .. Len(names) |-> [name |-> names[n], type |-> type]]

\* ------------------------------------------------- the Transient List
Max(S) == IF S = {} THEN 0 ELSE CHOOSE x \in S : \A y \in S : y <= x

\* MfList.mxact: the tracked maximum of the periods' record counts.
mxact(spd) == Max({Len(spd[kper]) : kper \in DOMAIN spd})

\* The records in effect in period kper: its own entry, else the entry of
\* the most recent earlier period that has one, else none.
Active(spd, kper) ==
    LET earlier == {k \in DOMAIN spd : k <= kper}
    IN  IF earlier = {} THEN <<>> ELSE spd[Max(earlier)]

AddRecordText == "MfList.add_record() error: length of index arg + length of value arg != length of self dtype"

\* MfList.add_record(kper, index, values): the record index + values goes to
\* the end of period kper's list; a record that does not fit the schema is
\* refused.
MfList_add_record(spd, dtype, kper, index, values) ==
    IF Len(index) + Len(values) # Len(dtype)
    THEN [ok |-> FALSE, error |-> [type |-> "AssertionError", msg |-> AddRecordText]]
    ELSE [ok |-> TRUE,
          spd |-> [k \in DOMAIN spd \cup {kper} |->
                     IF k = kper
                     THEN (IF kper \in DOMAIN spd THEN spd[kper] ELSE <<>>)
                          \o << index \o values >>
                     ELSE spd[k]]]

\* MfList.write_transient(f): for each period of the model an itmp line
\* (the record count; -1 to reuse the previous period's records) and then
\* the period's records.
TransientBlock(spd, kper) ==
    IF kper \in DOMAIN spd
    THEN << [kind |-> "itmp", itmp |-> Len(spd[kper])] >>
         \o [n \in 1 .. Len(spd[kper]) |-> [kind |-> "record", rec |-> spd[kper][n]]]
    ELSE IF \E k \in DOMAIN spd : k < kper
    THEN << [kind |-> "itmp", itmp |-> -1] >>
    ELSE << [kind |-> "itmp", itmp |-> 0] >>

RECURSIVE write_transient(_, _)
write_transient(spd, kper) ==
    IF kper >= NPer THEN <<>>
    ELSE TransientBlock(spd, kper) \o write_transient(spd, kper + 1)

\* ------------------------------------------------------------ operations
\* Mutant: the number of periods that hold records.
ncells_Periods(p) == Cardinality(DOMAIN p.spd)

\* ncells(): self.stress_period_data.mxact
ncells(p) == mxact(p.spd)

Prefix == "mfwel error adding record to list: "

\* Mutant: the collaborator's error is raised again as it is.
WrapError_Reraise(e) == e

\* except Exception as e: raise Exception(Prefix + str(e))
WrapError(e) == [type |-> "Exception", msg |-> Prefix \o e.msg]

\* The indices and values callers hand to add_record: well formed for a
\* structured grid, well formed for an unstructured one (each is malformed
\* for the other schema).
Indices == { <<0, 1, 2>>, <<7>> }
Values == { <<-100>>, <<250>> }

\* add_record(kper, index, values) on package i.
add_record(i, kper, index, values) ==
    LET p == pkgs[i]
        r == MfList_add_record(p.spd, get_default_dtype(structured), kper, index, values)
        args == [kper |-> kper, index |-> index, values |-> values]
    IN  /\ i \in 1 .. Len(pkgs)
        /\ p.adds < MaxAdds
        /\ IF r.ok
           THEN /\ pkgs' = [pkgs EXCEPT ![i].spd = r.spd, ![i].adds = @ + 1]
                /\ last' = Outcome("add_record", NoError, args)
           ELSE /\ pkgs' = pkgs
                /\ last' = Outcome("add_record", WrapError(r.error), args)
        /\ UNCHANGED <<version, structured, longBits, callerOptions, calls, f_wel,
                       writer>>

\* ncells() on package i.
ncells_call(i) ==
    /\ i \in 1 .. Len(pkgs)
    /\ last' = Outcome("ncells", NoError, ncells(pkgs[i]))
    /\ UNCHANGED <<version, structured, longBits, callerOptions, pkgs, calls, f_wel,
                   writer>>

Heading == "# Well file for MODFLOW, generated by Flopy."

\* '{0:10.5g}': five significant digits.
RECURSIVE Fmt5g(_)
Fmt5g(x) == IF x < 100000 THEN x ELSE 10 * Fmt5g((x + 5) \div 10)

\* Mutant: the SPECIFY line is written for every version.
WriteLines_AnyVersion(p, opts, ver) ==
    << [kind |-> "heading", text |-> Heading] >>
    \o (IF p.specify
        THEN << [kind |-> "SPECIFY", phiramp |-> Fmt5g(p.phiramp),
                 unit |-> p.phiramp_unit] >>
        ELSE <<>>)
    \o << [kind |-> "numbers", mxactw |-> mxact(p.spd), ipakcb |-> p.ipakcb,
           options |-> opts] >>
    \o write_transient(p.spd, 0)

\* The lines write_file writes for package p whose options are opts, in the
\* order of its f_wel.write calls.
WriteLines(p, opts, ver) ==
    << [kind |-> "heading", text |-> Heading] >>
    \o (IF p.specify /\ ver = "mfnwt"
        THEN << [kind |-> "SPECIFY", phiramp |-> Fmt5g(p.phiramp),
                 unit |-> p.phiramp_unit] >>
        ELSE <<>>)
    \o << [kind |-> "numbers", mxactw |-> mxact(p.spd), ipakcb |-> p.ipakcb,
           options |-> opts] >>
    \o write_transient(p.spd, 0)

\* write_file() on package i: the file is opened with 'w', so the lines
\* replace what it held.
write_file(i) ==
    /\ i \in 1 .. Len(pkgs)
    /\ f_wel' = WriteLines(pkgs[i], OptionsOf(pkgs[i]), version)
    /\ writer' = i
    /\ last' = Outcome("write_file", NoError, 0)
    /\ UNCHANGED <<version, structured, longBits, callerOptions, pkgs, calls>>

\* ------------------------------------------------------------------ load
\* The generic loader's reading of the per-period blocks from line pos on:
\* itmp > 0 is followed by that many records, itmp = 0 is an empty period,
\* itmp < 0 reuses the previous period's records (no entry of its own).
RECURSIVE ReadTransient(_, _, _, _)
ReadTransient(lines, pos, kper, spd) ==
    IF kper >= NPer THEN [ok |-> TRUE, spd |-> spd]
    ELSE IF pos > Len(lines) \/ lines[pos].kind # "itmp" THEN [ok |-> FALSE]
    ELSE LET itmp == lines[pos].itmp
         IN  IF itmp < 0 THEN ReadTransient(lines, pos + 1, kper + 1, spd)
             ELSE IF pos + itmp > Len(lines)
                     \/ \E n \in 1 .. itmp : lines[pos + n].kind # "record"
             THEN [ok |-> FALSE]
             ELSE ReadTransient(lines, pos + 1 + itmp, kper + 1,
                      [k \in DOMAIN spd \cup {kper} |->
                          IF k = kper THEN [n \in 1 .. itmp |-> lines[pos + n].rec]
                          ELSE spd[k]])

MalformedHeader == [type |-> "ValueError", msg |-> "malformed header"]

\* Package.load(model, ModflowWel, f, nper): the heading comment, then the
\* numbers line, then an optional SPECIFY line, then the blocks; the
\* package is rebuilt by the constructor from what was read.
LoadFile(lines) ==
    IF Len(lines) < 2 \/ lines[1].kind # "heading" \/ lines[2].kind # "numbers"
    THEN [ok |-> FALSE, error |-> MalformedHeader]
    ELSE LET start == IF Len(lines) >= 3 /\ lines[3].kind = "SPECIFY" THEN 4 ELSE 3
             t == ReadTransient(lines, start, 0, EmptyTable)
             c == Construct(lines[2].ipakcb, FALSE, <<>>)
         IN  IF ~t.ok THEN [ok |-> FALSE, error |-> MalformedHeader]
             ELSE [ok |-> TRUE, ipakcb |-> c.pkg.ipakcb, spd |-> t.spd]

\* ModflowWel.load(f, model, nper) on the file write_file left.
load ==
    LET r == LoadFile(f_wel)
    IN  /\ f_wel # <<>>
        /\ last' = IF r.ok
                   THEN Outcome("load", NoError, [ipakcb |-> r.ipakcb, spd |-> r.spd])
                   ELSE Outcome("load", r.error, 0)
        /\ UNCHANGED <<version, structured, longBits, callerOptions, pkgs, calls,
                       f_wel, writer>>

\* ------------------------------------------------------------- get_empty
\* -1.0E+10 is -(5^10 * 2^10).  A number is held as mant * base^exp.
Sentinel == [mant |-> -1, base |-> 10, exp |-> 10]

RECURSIVE BitLen(_)
BitLen(n) == IF n = 0 THEN 0 ELSE 1 + BitLen(n \div 2)

\* The bits a signed integer needs to hold -1.0E+10.
SentinelBits == 1 + 10 + BitLen(5 ^ 10)

\* The least value of a signed integer of the given width.
IntMin(bits) == [mant |-> -1, base |-> 2, exp |-> bits - 1]

\* The outcomes of d[:, :] = -1.0E+10 for one field.  float32 holds the
\* value exactly (5^10 < 2^24).  np.int is the C long: where -1.0E+10 does
\* not fit it the conversion is undefined; a build either leaves the least
\* integer in the field or raises OverflowError.
FieldOutcomes(type, bits) ==
    IF type = "float32" \/ bits >= SentinelBits
    THEN {[ok |-> TRUE, value |-> Sentinel]}
    ELSE {[ok |-> TRUE, value |-> IntMin(bits)], [ok |-> FALSE]}

EmptyDtype(aux, struct) ==
    IF aux.given
    THEN add_to_dtype(get_default_dtype(struct), aux.names, "float32")
    ELSE get_default_dtype(struct)

\* get_empty(n, aux_names, structured): the tables it can return, and
\* whether it can raise, on a build whose C long is bits wide.  Every
\* record of one table is filled by the same conversion.
GetEmpty(n, aux, struct, bits) ==
    LET dtype == EmptyDtype(aux, struct)
        fills == {f \in [1 .. Len(dtype) -> {Sentinel, IntMin(bits)}] :
                     \A c \in 1 .. Len(dtype) :
                         [ok |-> TRUE, value |-> f[c]]
                             \in FieldOutcomes(dtype[c].type, bits)}
        raises == \E c \in 1 .. Len(dtype) :
                     [ok |-> FALSE] \in FieldOutcomes(dtype[c].type, bits)
    IN  {[ok |-> TRUE, dtype |-> dtype, rows |-> [r \in 1 .. n |-> f]] : f \in fills}
        \cup (IF raises /\ n > 0
              THEN {[ok |-> FALSE, error |-> [type |-> "OverflowError", msg |-> ""]]}
              ELSE {})

AuxChoices ==
    { [given |-> FALSE, names |-> <<>>],
      [given |-> TRUE, names |-> <<>>],
      [given |-> TRUE, names |-> <<"iface">>],
      [given |-> TRUE, names |-> <<"iface", "conc">>] }

get_empty(n, aux, struct) ==
    \E r \in GetEmpty(n, aux, struct, longBits) :
        /\ last' = IF r.ok
                   THEN Outcome("get_empty", NoError,
                                [n |-> n, aux |-> aux, structured |-> struct,
                                 dtype |-> r.dtype, rows |-> r.rows])
                   ELSE Outcome("get_empty", r.error,
                                [n |-> n, aux |-> aux, structured |-> struct])
        /\ UNCHANGED <<version, structured, longBits, callerOptions, pkgs, calls,
                       f_wel, writer>>

\* -------------------------------------------------------- specifications
Versions == {"mf2005", "mfnwt"}
LongWidths == {32, 64}
IpakcbArgs == {0, 1, 53}

Start ==
    /\ version \in Versions
    /\ pkgs = <<>>
    /\ calls = <<>>
    /\ f_wel = <<>>
    /\ writer = 0
    /\ last = Outcome("none", NoError, 0)

\* One package of a model: built, filled by add_record, queried, written
\* and loaded back.
Init ==
    /\ Start
    /\ structured \in BOOLEAN
    /\ longBits = 64
    /\ callerOptions \in TableOptionLists

Next ==
    \/ \E ipakcb \in IpakcbArgs : Len(calls) = 0 /\ ModflowWel_init(ipakcb, TRUE)
    \/ \E kper \in Periods, index \in Indices, values \in Values :
          add_record(1, kper, index, values)
    \/ ncells_call(1)
    \/ write_file(1)
    \/ load

Spec == Init /\ [][Next]_vars

\* Packages built one after the other from the same options list object,
\* and the files they write.  No operation here reads the grid type.
InitOptions ==
    /\ Start
    /\ structured = TRUE
    /\ longBits = 64
    /\ callerOptions \in OptionLists

NextOptions ==
    \/ \E passed \in BOOLEAN : ModflowWel_init(0, passed)
    \/ \E i \in 1 .. Len(pkgs) : write_file(i)

SpecOptions == InitOptions /\ [][NextOptions]_vars

\* get_empty on the builds numpy runs on.
InitEmpty ==
    /\ Start
    /\ structured \in BOOLEAN
    /\ longBits \in LongWidths
    /\ callerOptions = <<>>

NextEmpty ==
    \E n \in 0 .. MaxN, aux \in AuxChoices, struct \in BOOLEAN : get_empty(n, aux, struct)

SpecEmpty == InitEmpty /\ [][NextEmpty]_vars

\* ================================================================ claims
\* Helpers of the statements below.
Min(S) == CHOOSE x \in S : \A y \in S : x <= y

Matches(options) == {n \in 1 .. Len(options) : ContainsSpecify(options[n])}

Without(options, n) == SubSeq(options, 1, n - 1) \o SubSeq(options, n + 1, Len(options))

RECURSIVE IsSubseq(_, _)
IsSubseq(a, b) ==
    IF a = <<>> THEN TRUE
    ELSE IF b = <<>> THEN FALSE
    ELSE IF Head(a) = Head(b) THEN IsSubseq(Tail(a), Tail(b))
    ELSE IsSubseq(a, Tail(b))

CallOf(i) == CHOOSE c \in 1 .. Len(calls) : calls[c].pkg = i

HasSpecifyLine(lines) == \E n \in 1 .. Len(lines) : lines[n].kind = "SPECIFY"

NumbersLine(lines) == lines[CHOOSE n \in 1 .. Len(lines) : lines[n].kind = "numbers"]

Rank(kind) ==
    CASE kind = "heading" -> 1
      [] kind = "numbers" -> 2
      [] kind = "SPECIFY" -> 3
      [] OTHER -> 4

CountKind(lines, kind) == Cardinality({n \in 1 .. Len(lines) : lines[n].kind = kind})

\* C1: the file holds the heading, then the numbers line with the options,
\* then the SPECIFY line if any, then the transient blocks and nothing else;
\* the SPECIFY line never comes before the numbers line.
C1_WriteOrder ==
    f_wel # <<>> =>
        /\ CountKind(f_wel, "heading") = 1
        /\ CountKind(f_wel, "numbers") = 1
        /\ CountKind(f_wel, "SPECIFY") <= 1
        /\ \A a, b \in 1 .. Len(f_wel) :
              a < b => Rank(f_wel[a].kind) <= Rank(f_wel[b].kind)

\* The damping factor or the unit number of package p is a token of opt.
Mentions(opt, p) ==
    \E n \in 1 .. Len(opt) :
        \/ IsFloatText(opt[n]) /\ FloatOf(opt[n]) = p.phiramp
        \/ IsIntText(opt[n]) /\ IntOf(opt[n]) = p.phiramp_unit

SpecifyLineIff ==
    writer # 0 =>
        (HasSpecifyLine(f_wel) <=> (pkgs[writer].specify /\ version = "mfnwt"))

Extracted(c, trailing) ==
    LET given == calls[c].given
        p == pkgs[calls[c].pkg]
    IN  IF Matches(given) = {}
        THEN ~p.specify /\ calls[c].left = given
        ELSE LET n == Min(Matches(given))
                 e == given[n]
                 d == IF trailing THEN Len(e) - 1 ELSE 2
                 u == IF trailing THEN Len(e) ELSE 3
             IN  /\ p.specify
                 /\ d >= 1 /\ u <= Len(e)
                 /\ IsFloatText(e[d]) /\ p.phiramp = FloatOf(e[d])
                 /\ IsIntText(e[u]) /\ p.phiramp_unit = IntOf(e[u])
                 /\ calls[c].left = Without(given, n)

NotReEmitted == writer # 0 => IsSubseq(NumbersLine(f_wel).options, calls[CallOf(writer)].left)

\* C3 as stated: the first entry containing 'specify' sets specify, its two
\* trailing tokens give the damping factor and the unit number, it alone is
\* removed and the others keep their order; with no such entry specify is
\* false and the options are unchanged.
C3_Original ==
    /\ \A c \in 1 .. Len(calls) : (calls[c].passed /\ calls[c].ok) => Extracted(c, TRUE)
    /\ NotReEmitted

\* C3 (amended): as above, with the damping factor and the unit number read
\* from the entry's second and third tokens.
C3_SpecifyExtraction ==
    /\ \A c \in 1 .. Len(calls) : (calls[c].passed /\ calls[c].ok) => Extracted(c, FALSE)
    /\ NotReEmitted

C3_Witness ==
    \E c \in 1 .. Len(calls) :
        /\ calls[c].passed /\ calls[c].ok
        /\ Len(calls[c].given) = 3
        /\ Matches(calls[c].given) = {2, 3}
        /\ Len(calls[c].given[2]) = 4
        /\ writer = calls[c].pkg

\* Whether call c, whose list has a 'specify' entry, raised a parsing error
\* exactly when its first such entry is malformed; an entry is malformed
\* when it has too few tokens, or also too many (exact).
ParseOutcome(c, exact) ==
    LET e == calls[c].given[Min(Matches(calls[c].given))]
        malformed == \/ Len(e) < 3
                     \/ exact /\ Len(e) # 3
                     \/ ~IsFloatText(e[2])
                     \/ ~IsIntText(e[3])
    IN  /\ malformed => ~calls[c].ok
        /\ ~calls[c].ok =>
              /\ malformed
              /\ calls[c].error \in {"IndexError", "ValueError"}
              /\ calls[c].pkg = 0
              /\ (c = Len(calls) /\ last.op = "init") => last.raised.type = calls[c].error

\* C6 as stated: a first 'specify' entry with fewer or more tokens than the
\* keyword and two fields, or with a non-numeric field, makes construction
\* raise.
C6_Original ==
    \A c \in 1 .. Len(calls) :
        (calls[c].passed /\ Matches(calls[c].given) # {}) => ParseOutcome(c, TRUE)

\* C6 (amended): construction raises exactly when the first 'specify' entry
\* has fewer than three tokens, or its second token is not a number, or its
\* third is not an integer; tokens after the third are ignored.
C6_MalformedSpecify ==
    \A c \in 1 .. Len(calls) :
        (calls[c].passed /\ Matches(calls[c].given) # {}) => ParseOutcome(c, FALSE)

C6_Witness ==
    \E a, b \in 1 .. Len(calls) :
        /\ calls[a].passed /\ calls[a].ok
        /\ Matches(calls[a].given) # {}
        /\ Len(calls[a].given[Min(Matches(calls[a].given))]) = 4
        /\ calls[b].passed /\ ~calls[b].ok
        /\ last.raised.type = "ValueError"

\* C10: self.options is the caller's list, and the first 'specify' entry is
\* removed from that list itself; so of two packages built from a list that
\* held one 'specify' entry the first has specify set and the second has
\* not; and a construction that raises leaves the list as it was.
C10_SharedList ==
    /\ \A c \in 1 .. Len(calls) :
          /\ (calls[c].passed /\ calls[c].ok) =>
                /\ pkgs[calls[c].pkg].optref = "caller"
                /\ Matches(calls[c].given) # {} =>
                      calls[c].left = Without(calls[c].given, Min(Matches(calls[c].given)))
          /\ ~calls[c].ok => calls[c].left = calls[c].given
          /\ c < Len(calls) => calls[c + 1].given = calls[c].left
    /\ \A i \in 1 .. Len(pkgs) :
          pkgs[i].optref = "caller" => OptionsOf(pkgs[i]) = callerOptions
    /\ \A a, b \in 1 .. Len(calls) :
          (/\ a < b
           /\ calls[a].passed /\ calls[b].passed
           /\ calls[a].ok
           /\ Cardinality(Matches(calls[a].given)) = 1) =>
              /\ pkgs[calls[a].pkg].specify
              /\ calls[b].ok
              /\ ~pkgs[calls[b].pkg].specify

C10_Witness ==
    /\ Len(calls) = 2
    /\ calls[1].passed /\ calls[2].passed
    /\ calls[1].ok /\ calls[2].ok
    /\ Cardinality(Matches(calls[1].given)) = 1
    /\ Len(calls[1].given) = 3
    /\ pkgs[1].specify /\ ~pkgs[2].specify

\* C4: a nonzero ipakcb is stored as 53 and zero as 0, so a package's ipakcb
\* is 0 or 53 whatever add_record and write_file calls follow, and it is the
\* second field of the numbers line write_file writes.
C4_BudgetFlag ==
    /\ \A c \in 1 .. Len(calls) :
          calls[c].ok =>
              /\ pkgs[calls[c].pkg].ipakcb \in {0, 53}
              /\ calls[c].ipakcb # 0 => pkgs[calls[c].pkg].ipakcb = 53
              /\ calls[c].ipakcb = 0 => pkgs[calls[c].pkg].ipakcb = 0
    /\ writer # 0 => NumbersLine(f_wel).ipakcb = pkgs[writer].ipakcb

C4_Witness ==
    /\ writer # 0
    /\ calls[1].ipakcb = 1
    /\ pkgs[1].adds > 0
    /\ NumbersLine(f_wel).ipakcb = 53

\* C5: add_record hands kper, index and values to the Transient List; when
\* that fails, the error raised is a plain Exception whose message is the
\* prefix followed by the original text; when it succeeds nothing is raised.
C5_AddRecordError ==
    last.op = "add_record" =>
        LET a == last.value
            accepted == Len(a.index) + Len(a.values) = Len(get_default_dtype(structured))
        IN  IF accepted
            THEN /\ last.raised = NoError
                 /\ a.kper \in DOMAIN pkgs[1].spd
                 /\ pkgs[1].spd[a.kper][Len(pkgs[1].spd[a.kper])] = a.index \o a.values
            ELSE /\ last.raised.type = "Exception"
                 /\ last.raised.msg = Prefix \o AddRecordText

C5_Witness ==
    /\ last.op = "add_record"
    /\ last.raised.type = "Exception"
    /\ pkgs[1].adds > 0

\* The largest number of records in effect in a period of the model.
MaxActive(spd) == Max({Len(Active(spd, kper)) : kper \in Periods})

\* C9: ncells() is the largest number of records active in a period; the
\* mxactw write_file writes is ncells() at the time of the write; neither
\* ncells nor write_file changes the package or the options list.
C9_Ncells ==
    /\ [](/\ \A i \in 1 .. Len(pkgs) : ncells(pkgs[i]) = MaxActive(pkgs[i].spd)
          /\ last.op = "ncells" => last.value = MaxActive(pkgs[1].spd))
    /\ [][/\ last'.op = "write_file" =>
                /\ NumbersLine(f_wel').mxactw = ncells(pkgs[writer'])
                /\ UNCHANGED <<pkgs, callerOptions, calls>>
          /\ last'.op = "ncells" => UNCHANGED <<pkgs, callerOptions, calls, f_wel>>]_vars

C9_Witness ==
    /\ last.op = "write_file"
    /\ DOMAIN pkgs[1].spd = {1}
    /\ NumbersLine(f_wel).mxactw = 2

\* The file holds what write_file writes for its writer as it is now.
FileIsCurrent ==
    /\ writer # 0
    /\ f_wel = WriteLines(pkgs[writer], OptionsOf(pkgs[writer]), version)

\* C7: loading the file a package wrote gives a package with the same
\* records in effect in every period and the same ipakcb.
C7_RoundTrip ==
    (last.op = "load" /\ FileIsCurrent) =>
        /\ last.raised = NoError
        /\ last.value.ipakcb = pkgs[writer].ipakcb
        /\ \A kper \in Periods :
              Active(last.value.spd, kper) = Active(pkgs[writer].spd, kper)

\* C8: get_empty returns n records of the default schema followed by the
\* auxiliary fields, every field of every record -1.0E+10.
C8_GetEmptySentinel ==
    last.op = "get_empty" =>
        /\ last.raised = NoError
        /\ Len(last.value.rows) = last.value.n
        /\ last.value.dtype =
              get_default_dtype(last.value.structured)
              \o [c \in 1 .. Len(last.value.aux.names) |->
                     [name |-> last.value.aux.names[c], type |-> "float32"]]
        /\ \A r \in 1 .. last.value.n, c \in 1 .. Len(last.value.dtype) :
              last.value.rows[r][c] = Sentinel

====
